---- MODULE Spec2Model ----
(***************************************************************************)
(* hl7push: a directory scanner that pushes HL7v2 files to a Cloud         *)
(* Healthcare HL7v2 store through a rate-limited client and checks the     *)
(* acknowledgement of every message.                                       *)
(*                                                                         *)
(*   Spec      the client (NewClient, Send, List, GetByID, Get) driven by  *)
(*             an arbitrary caller with an arbitrary Config                *)
(*   SpecScan  the program: main -> scanDirectory -> hl7WebStoreInstance   *)
(*             -> NewClient -> Send -> checkAck                            *)
(*                                                                         *)
(* Text is a sequence of one-character strings where the code looks into   *)
(* it (base64 text, file names), a string where it only compares or joins; *)
(* bytes are sequences of 0..255.  An error is a string, NoErr for nil.    *)
(***************************************************************************)
EXTENDS Integers, Sequences, FiniteSets, TLC

VARIABLES
    ctor,       \* the NewClient call: position, argument, result, effects so far
    cli,        \* the client NewClient returned (cli.made = FALSE: none)
    limLast,    \* time of the limiter's last permit, -1 before the first
    now,        \* the clock, in ticks
    call,       \* the client call in progress or just returned
    wire,       \* every request executed against the remote service
    ncalls,     \* client calls started by the caller
    variant,    \* which of the two copies of the scanner runs
    loop,       \* main: passes started
    stack,      \* scanDirectory: one frame per activation
    disp,       \* hl7WebStoreInstance: the dispatch in progress
    tmpfs,      \* ./tmp: file name -> content
    attempts,   \* per file: dispatches started in this pass
    outcome,    \* per file: how its last dispatch ended, as the scan reports it
    acks,       \* per file: calls of checkAck in this pass
    panicked    \* scanDirectory panicked

vars == <<ctor, cli, limLast, now, call, wire, ncalls, variant, loop, stack,
          disp, tmpfs, attempts, outcome, acks, panicked>>

scanVars == <<variant, loop, stack, disp, tmpfs, attempts, outcome, acks, panicked>>

----------------------------------------------------------------------------
(* Bounds *)

MaxCalls == 3          \* client calls per behaviour of Spec
MaxTime == 2           \* the clock stops ticking on its own here
TicksPerSecond == 2    \* resolution of the clock

----------------------------------------------------------------------------
(* Constants of the client *)

NoErr == "<nil>"
Unset == "-"

projectsPath == "projects"
locationsPath == "locations"
datasetsPath == "datasets"
hl7storePath == "hl7V2Stores"
apiFormatHeader == "X-GOOG-API-FORMAT-VERSION"

Credentials == {"", "./.secrets/creds.json"}
RateLimits == {-1, 0, 1, 2}
Configs == [Credential : Credentials,
            ProjectID : {"", "devx-rpml"},
            LocationID : {"", "us-central1"},
            DatasetID : {"", "inap-dev"},
            HL7StoreID : {"", "somehl7"},
            RateLimit : RateLimits]

NoConfig == [Credential |-> "", ProjectID |-> "", LocationID |-> "",
             DatasetID |-> "", HL7StoreID |-> "", RateLimit |-> 0]

----------------------------------------------------------------------------
(* encoding/base64, StdEncoding: the padded standard alphabet *)

B64Chars == << "A","B","C","D","E","F","G","H","I","J","K","L","M","N","O","P",
               "Q","R","S","T","U","V","W","X","Y","Z","a","b","c","d","e","f",
               "g","h","i","j","k","l","m","n","o","p","q","r","s","t","u","v",
               "w","x","y","z","0","1","2","3","4","5","6","7","8","9","+","/" >>

B64Alphabet == {B64Chars[i] : i \in 1..64}

B64Index(c) == (CHOOSE i \in 1..64 : B64Chars[i] = c) - 1

EncodeQuantum(b) ==
    LET n == Len(b)
        v == b[1] * 65536 + (IF n >= 2 THEN b[2] ELSE 0) * 256
                          + (IF n >= 3 THEN b[3] ELSE 0)
        ch(k) == B64Chars[((v \div (64 ^ (3 - k))) % 64) + 1]
    IN  << ch(0), ch(1),
           IF n >= 2 THEN ch(2) ELSE "=",
           IF n >= 3 THEN ch(3) ELSE "=" >>

RECURSIVE EncodeToString(_)
EncodeToString(b) ==
    IF Len(b) = 0 THEN << >>
    ELSE IF Len(b) <= 3 THEN EncodeQuantum(b)
    ELSE EncodeQuantum(SubSeq(b, 1, 3)) \o EncodeToString(SubSeq(b, 4, Len(b)))

DecodeQuantum(q, last) ==
    LET in(k) == q[k] \in B64Alphabet
        v == B64Index(q[1]) * 262144 + B64Index(q[2]) * 4096
             + (IF in(3) THEN B64Index(q[3]) ELSE 0) * 64
             + (IF in(4) THEN B64Index(q[4]) ELSE 0)
    IN  IF ~(in(1) /\ in(2)) THEN [err |-> TRUE, bytes |-> << >>]
        ELSE IF in(3) /\ in(4)
            THEN [err |-> FALSE,
                  bytes |-> << v \div 65536, (v \div 256) % 256, v % 256 >>]
        ELSE IF last /\ in(3) /\ q[4] = "="
            THEN [err |-> FALSE, bytes |-> << v \div 65536, (v \div 256) % 256 >>]
        ELSE IF last /\ q[3] = "=" /\ q[4] = "="
            THEN [err |-> FALSE, bytes |-> << v \div 65536 >>]
        ELSE [err |-> TRUE, bytes |-> << >>]

RECURSIVE DecodeClean(_)
DecodeClean(s) ==
    IF Len(s) = 0 THEN [err |-> FALSE, bytes |-> << >>]
    ELSE IF Len(s) < 4 THEN [err |-> TRUE, bytes |-> << >>]
    ELSE LET q == DecodeQuantum(SubSeq(s, 1, 4), Len(s) = 4)
             r == DecodeClean(SubSeq(s, 5, Len(s)))
         IN  IF q.err \/ r.err THEN [err |-> TRUE, bytes |-> << >>]
             ELSE [err |-> FALSE, bytes |-> q.bytes \o r.bytes]

\* DecodeString ignores "\r" and "\n" in its input
DecodeString(s) == DecodeClean(SelectSeq(s, LAMBDA c : c \notin {"\n", "\r"}))

----------------------------------------------------------------------------
(* Config.Validate, genStoreName and the limiter *)

\* Validate without its dataset check
ValidateSkipsDataset(c) ==
    IF c.ProjectID = "" THEN "missing project id"
    ELSE IF c.LocationID = "" THEN "missing location id"
    ELSE IF c.HL7StoreID = "" THEN "missing hl7 store id"
    ELSE NoErr

Validate(c) ==
    IF c.ProjectID = "" THEN "missing project id"
    ELSE IF c.LocationID = "" THEN "missing location id"
    ELSE IF c.DatasetID = "" THEN "missing dataset id"
    ELSE IF c.HL7StoreID = "" THEN "missing hl7 store id"
    ELSE NoErr

genStoreName(config) ==
    projectsPath \o "/" \o config.ProjectID \o "/" \o
    locationsPath \o "/" \o config.LocationID \o "/" \o
    datasetsPath \o "/" \o config.DatasetID \o "/" \o
    hl7storePath \o "/" \o config.HL7StoreID

\* the limiter chosen by rate != 0
SelectLimiterNonZero(rate) ==
    IF rate # 0 THEN [kind |-> "limited", rate |-> rate]
    ELSE [kind |-> "unlimited", rate |-> 0]

\* NewClient's choice of limiter
SelectLimiter(rate) ==
    IF rate > 0 THEN [kind |-> "limited", rate |-> rate]
    ELSE [kind |-> "unlimited", rate |-> 0]

\* ticks between two permits of a limiter
Interval(lim) ==
    IF lim.kind = "limited" THEN TicksPerSecond \div lim.rate ELSE 0

\* how long limiter.Take() sleeps at time t when its last permit was at last
TakeSleep(lim, last, t) ==
    IF lim.kind = "unlimited" \/ last < 0 THEN 0
    ELSE IF last + Interval(lim) > t THEN last + Interval(lim) - t
    ELSE 0

NoLimiter == [kind |-> "none", rate |-> 0]
NoClient == [made |-> FALSE, config |-> NoConfig, store |-> FALSE,
             limiter |-> NoLimiter]

----------------------------------------------------------------------------
(* NewClient *)

NoCtor == [pc |-> "idle", config |-> NoConfig, verr |-> Unset, err |-> NoErr,
           log |-> << >>]

\* the caller's NewClient(ctx, config)
EnterNewClient(config) ==
    [pc |-> "validate", config |-> config, verr |-> Unset, err |-> NoErr,
     log |-> << >>]

CtorFail(e, effects) ==
    [ctor EXCEPT !.pc = "ret", !.err = e, !.log = @ \o effects]

CtorStep(pc, effects) ==
    [ctor EXCEPT !.pc = pc, !.log = @ \o effects]

\* NewClient going on to the credentials whatever Validate returned
NewClientValidateLate ==
    /\ ctor.pc = "validate"
    /\ ctor' = [CtorStep("token", << "Validate" >>) EXCEPT
                   !.verr = Validate(ctor.config), !.err = Validate(ctor.config)]
    /\ UNCHANGED <<cli, limLast, now, call, wire, ncalls>>
    /\ UNCHANGED scanVars

\* if err := config.Validate(); err != nil { return nil, err }
NewClientValidate ==
    /\ ctor.pc = "validate"
    /\ LET err == Validate(ctor.config)
       IN  ctor' = IF err # NoErr
                   THEN [CtorFail(err, << "Validate" >>) EXCEPT !.verr = err]
                   ELSE [CtorStep("token", << "Validate" >>) EXCEPT !.verr = err]
    /\ UNCHANGED <<cli, limLast, now, call, wire, ncalls>>
    /\ UNCHANGED scanVars

\* initHL7Store -> tokenSource: the ambient source for an empty credential,
\* else the credential file, read and then parsed
NewClientTokenSource ==
    /\ ctor.pc = "token"
    /\ \E readOk \in BOOLEAN, parseOk \in BOOLEAN :
         ctor' = IF ctor.config.Credential = ""
                 THEN IF readOk /\ parseOk
                      THEN CtorStep("service", << "DefaultTokenSource" >>)
                      ELSE CtorFail("could not find default credentials",
                                    << "DefaultTokenSource" >>)
                 ELSE IF ~readOk
                      THEN CtorFail("open credential file", << "ReadFile" >>)
                 ELSE IF ~parseOk
                      THEN CtorFail("invalid credential json",
                                    << "ReadFile", "CredentialsFromJSON" >>)
                 ELSE CtorStep("service", << "ReadFile", "CredentialsFromJSON" >>)
    /\ UNCHANGED <<cli, limLast, now, call, wire, ncalls>>
    /\ UNCHANGED scanVars

\* hcs, err := healthcare.NewService(ctx, option.WithTokenSource(ts))
NewClientService ==
    /\ ctor.pc = "service"
    /\ \E ok \in BOOLEAN :
         ctor' = IF ok THEN CtorStep("limiter", << "NewService" >>)
                 ELSE CtorFail("unable to create service", << "NewService" >>)
    /\ UNCHANGED <<cli, limLast, now, call, wire, ncalls>>
    /\ UNCHANGED scanVars

\* the limiter is chosen and the client is built and returned
NewClientLimiter ==
    /\ ctor.pc = "limiter"
    /\ cli' = [made |-> TRUE, config |-> ctor.config, store |-> TRUE,
               limiter |-> SelectLimiter(ctor.config.RateLimit)]
    /\ limLast' = -1
    /\ ctor' = CtorStep("ret", << IF ctor.config.RateLimit > 0
                                  THEN "ratelimit.New"
                                  ELSE "ratelimit.NewUnlimited" >>)
    /\ UNCHANGED <<now, call, wire, ncalls>>
    /\ UNCHANGED scanVars

----------------------------------------------------------------------------
(* The client's operations *)

NoReq == [method |-> "", target |-> "", headers |-> {}, body |-> << >>]
NoResp == [Name |-> "", Hl7Ack |-> << >>]
NoOut == [nil |-> TRUE, bytes |-> << >>, name |-> "", err |-> NoErr]

NoCall == [op |-> "", pc |-> "idle", data |-> << >>, path |-> "",
           takes |-> 0, waited |-> 0, reqs |-> 0, doErr |-> Unset,
           req |-> NoReq, resp |-> NoResp, resultpath |-> "", out |-> NoOut]

\* a caller's cli.Send(data), cli.List(), cli.GetByID(id), cli.Get(path)
EnterSend(data) ==
    [NoCall EXCEPT !.op = "Send", !.pc = "Send.take", !.data = data]
EnterList == [NoCall EXCEPT !.op = "List", !.pc = "List.take"]
EnterGetByID(id) == [NoCall EXCEPT !.op = "GetByID", !.pc = "GetByID", !.path = id]
EnterGet(path) == [NoCall EXCEPT !.op = "Get", !.pc = "Get.take", !.path = path]

\* what the remote service may answer to an ingest request
MessageNames == {"/messages/m1", "/messages/m2"}
AckTexts == { << >>,
              << "Q", "U", "N", "L" >>,
              << "T", "k", "F", "D", "S", "w", "=", "=" >>,
              << "Q", "U", "\n", "N", "L" >>,
              << "Q", "U", "N" >>,
              << "Q", "U", "*", "L" >> }
IngestResponses == [Name : MessageNames, Hl7Ack : AckTexts]

\* c.limiter.Take(): sleeps until the next permit is due, then takes it
LimiterTake(next) ==
    LET sleep == TakeSleep(cli.limiter, limLast, now)
    IN  /\ now' = now + sleep
        /\ limLast' = IF cli.limiter.kind = "limited" THEN now + sleep ELSE limLast
        /\ call' = [call EXCEPT !.pc = next, !.takes = @ + 1, !.waited = @ + sleep]

\* X.Header().Add(apiFormatHeader, "2")
AddHeader(next) ==
    call' = [call EXCEPT !.pc = next,
                         !.req.headers = @ \cup {<<apiFormatHeader, "2">>}]

\* what the wire keeps of a request: its method, target and headers
Sent(req) == [method |-> req.method, target |-> req.target, headers |-> req.headers]

\* Do executing the request again when it failed
DoRetries(ok, next, resp, out) ==
    /\ wire' = wire \cup {Sent(call.req)}
    /\ call' = IF ok
               THEN [call EXCEPT !.pc = next, !.reqs = @ + 1, !.doErr = NoErr,
                                 !.resp = resp, !.out = out]
               ELSE [call EXCEPT !.reqs = @ + 1]

\* X.Context(ctx).Do(): the request goes out; the answer is the transport's
Do(ok, next, resp, out) ==
    /\ wire' = wire \cup {Sent(call.req)}
    /\ call' = IF ok
               THEN [call EXCEPT !.pc = next, !.reqs = @ + 1, !.doErr = NoErr,
                                 !.resp = resp, !.out = out]
               ELSE [call EXCEPT !.pc = "ret", !.reqs = @ + 1,
                                 !.doErr = "transport error",
                                 !.out = [NoOut EXCEPT !.err = "transport error"]]

SendTake ==
    /\ call.pc = "Send.take"
    /\ LimiterTake("Send.build")
    /\ UNCHANGED <<ctor, cli, wire, ncalls>>
    /\ UNCHANGED scanVars

\* the IngestMessageRequest and the ingest call on the store's name
SendBuild ==
    /\ call.pc = "Send.build"
    /\ call' = [call EXCEPT !.pc = "Send.header",
                  !.req = [method |-> "ingest",
                           target |-> genStoreName(cli.config),
                           headers |-> {},
                           body |-> EncodeToString(call.data)]]
    /\ UNCHANGED <<ctor, cli, limLast, now, wire, ncalls>>
    /\ UNCHANGED scanVars

SendHeader ==
    /\ call.pc = "Send.header"
    /\ AddHeader("Send.do")
    /\ UNCHANGED <<ctor, cli, limLast, now, wire, ncalls>>
    /\ UNCHANGED scanVars

\* resp, err := ingest.Context(ctx).Do(); if err != nil { return nil, "", err }
SendDo ==
    /\ call.pc = "Send.do"
    /\ \E ok \in BOOLEAN, resp \in IngestResponses :
         Do(ok, "Send.decode", [resp EXCEPT !.Name = genStoreName(cli.config) \o @],
            NoOut)
    /\ UNCHANGED <<ctor, cli, limLast, now, ncalls>>
    /\ UNCHANGED scanVars

\* Send returning the resource name along with a decoding error
SendDecodeKeepsPath ==
    /\ call.pc = "Send.decode"
    /\ LET res == DecodeString(call.resp.Hl7Ack)
       IN  call' = IF res.err
                   THEN [call EXCEPT !.pc = "ret", !.resultpath = call.resp.Name,
                            !.out = [NoOut EXCEPT !.err = "illegal base64 data",
                                                  !.name = call.resp.Name]]
                   ELSE [call EXCEPT !.pc = "ret", !.resultpath = call.resp.Name,
                            !.out = [nil |-> FALSE, bytes |-> res.bytes,
                                     name |-> call.resp.Name, err |-> NoErr]]
    /\ UNCHANGED <<ctor, cli, limLast, now, wire, ncalls>>
    /\ UNCHANGED scanVars

\* resultpath = resp.Message.Name; the acknowledgement is decoded
SendDecode ==
    /\ call.pc = "Send.decode"
    /\ LET res == DecodeString(call.resp.Hl7Ack)
       IN  call' = IF res.err
                   THEN [call EXCEPT !.pc = "ret", !.resultpath = call.resp.Name,
                            !.out = [NoOut EXCEPT !.err = "illegal base64 data"]]
                   ELSE [call EXCEPT !.pc = "ret", !.resultpath = call.resp.Name,
                            !.out = [nil |-> FALSE, bytes |-> res.bytes,
                                     name |-> call.resp.Name, err |-> NoErr]]
    /\ UNCHANGED <<ctor, cli, limLast, now, wire, ncalls>>
    /\ UNCHANGED scanVars

ListTake ==
    /\ call.pc = "List.take"
    /\ LimiterTake("List.build")
    /\ UNCHANGED <<ctor, cli, wire, ncalls>>
    /\ UNCHANGED scanVars

ListBuild ==
    /\ call.pc = "List.build"
    /\ call' = [call EXCEPT !.pc = "List.header",
                  !.req = [method |-> "list", target |-> genStoreName(cli.config),
                           headers |-> {}, body |-> << >>]]
    /\ UNCHANGED <<ctor, cli, limLast, now, wire, ncalls>>
    /\ UNCHANGED scanVars

\* List without the header
ListHeaderMissing ==
    /\ call.pc = "List.header"
    /\ call' = [call EXCEPT !.pc = "List.do"]
    /\ UNCHANGED <<ctor, cli, limLast, now, wire, ncalls>>
    /\ UNCHANGED scanVars

ListHeader ==
    /\ call.pc = "List.header"
    /\ AddHeader("List.do")
    /\ UNCHANGED <<ctor, cli, limLast, now, wire, ncalls>>
    /\ UNCHANGED scanVars

\* return list.Context(ctx).Do()
ListDo ==
    /\ call.pc = "List.do"
    /\ \E ok \in BOOLEAN :
         Do(ok, "ret", NoResp,
            [nil |-> FALSE, bytes |-> << >>,
             name |-> genStoreName(cli.config) \o "/messages", err |-> NoErr])
    /\ UNCHANGED <<ctor, cli, limLast, now, ncalls>>
    /\ UNCHANGED scanVars

\* GetByID taking a permit of its own before it delegates to Get
GetByIDTakesPermit ==
    /\ call.pc = "GetByID"
    /\ LimiterTake("Get.take")
    /\ UNCHANGED <<ctor, cli, wire, ncalls>>
    /\ UNCHANGED scanVars

\* path := fmt.Sprintf("%s/messages/%s", genStoreName(c.config), id); c.Get(path)
GetByID ==
    /\ call.pc = "GetByID"
    /\ call' = [call EXCEPT !.pc = "Get.take",
                  !.path = genStoreName(cli.config) \o "/messages/" \o call.path]
    /\ UNCHANGED <<ctor, cli, limLast, now, wire, ncalls>>
    /\ UNCHANGED scanVars

GetTake ==
    /\ call.pc = "Get.take"
    /\ LimiterTake("Get.build")
    /\ UNCHANGED <<ctor, cli, wire, ncalls>>
    /\ UNCHANGED scanVars

GetBuild ==
    /\ call.pc = "Get.build"
    /\ call' = [call EXCEPT !.pc = "Get.header",
                  !.req = [method |-> "get", target |-> call.path,
                           headers |-> {}, body |-> << >>]]
    /\ UNCHANGED <<ctor, cli, limLast, now, wire, ncalls>>
    /\ UNCHANGED scanVars

GetHeader ==
    /\ call.pc = "Get.header"
    /\ AddHeader("Get.do")
    /\ UNCHANGED <<ctor, cli, limLast, now, wire, ncalls>>
    /\ UNCHANGED scanVars

\* return get.Context(ctx).Do()
GetDo ==
    /\ call.pc = "Get.do"
    /\ \E ok \in BOOLEAN :
         Do(ok, "ret", NoResp,
            [nil |-> FALSE, bytes |-> << >>, name |-> call.path, err |-> NoErr])
    /\ UNCHANGED <<ctor, cli, limLast, now, ncalls>>
    /\ UNCHANGED scanVars

----------------------------------------------------------------------------
(* A caller of the client: any Config, then any operations on the client *)

Payloads == { << 77 >>, << 77, 83, 72, 124 >> }
MessageIDs == {"m1"}

CallerIdle == call.pc \in {"idle", "ret"} /\ ctor.pc \in {"idle", "ret"}

CallNewClient ==
    /\ ctor.pc = "idle"
    /\ \E c \in Configs : ctor' = EnterNewClient(c)
    /\ UNCHANGED <<cli, limLast, now, call, wire, ncalls>>
    /\ UNCHANGED scanVars

CallOp(frame) ==
    /\ ctor.pc = "ret" /\ cli.made
    /\ call.pc \in {"idle", "ret"}
    /\ ncalls < MaxCalls
    /\ call' = frame
    /\ ncalls' = ncalls + 1
    /\ UNCHANGED <<ctor, cli, limLast, now, wire>>
    /\ UNCHANGED scanVars

CallSend == \E d \in Payloads : CallOp(EnterSend(d))
CallList == CallOp(EnterList)
CallGetByID == \E id \in MessageIDs : CallOp(EnterGetByID(id))
CallGet == \E id \in MessageIDs :
              CallOp(EnterGet(genStoreName(cli.config) \o "/messages/" \o id))

\* time passes between the caller's calls
Tick ==
    /\ CallerIdle
    /\ now < MaxTime
    /\ now' = now + 1
    /\ UNCHANGED <<ctor, cli, limLast, call, wire, ncalls>>
    /\ UNCHANGED scanVars

----------------------------------------------------------------------------
(* The scanner: constants of the two copies, the scanned tree *)

Variants == {"main.go", "part_001"}

loopit == 1
retainSent(v) == v = "part_001"

cfg(v) ==
    [Credential |-> "./.secrets/creds.json",
     ProjectID |-> "devx-rpml",
     LocationID |-> "us-central1",
     DatasetID |-> IF v = "main.go" THEN "inap-dev" ELSE "somehl7",
     HL7StoreID |-> IF v = "main.go" THEN "somehl7" ELSE "clitest",
     RateLimit |-> 0]

\* the tree under hl7Dir: directory (a path, << >> for hl7Dir itself) -> its
\* entries in ioutil.ReadDir's order, sorted by name
File(name, data) == [name |-> name, isDir |-> FALSE, data |-> data]
Dir(name) == [name |-> name, isDir |-> TRUE, data |-> << >>]

NameA == << "a", ".", "h", "l", "7" >>
NameB == << "b", ".", "t", "x", "t" >>
NameC == << "c", ".", "h", "l", "7" >>
NameD == << "d" >>
NameE == << "e", ".", "h", "l", "7", ".", "b", "a", "k" >>

Tree ==
    (<< >> :> << File(NameA, << 77, 10 >>), File(NameB, << 66 >>), Dir(NameD),
                 File(NameE, << 69 >>) >>)
    @@ (<< NameD >> :> << File(NameC, << 67 >>) >>)

Entries(d) == {Tree[d][k] : k \in 1..Len(Tree[d])}

\* every regular file of the tree, as <<directory, name>>
Files == UNION {{<<d, e.name>> : e \in {x \in Entries(d) : ~x.isDir}} :
                d \in DOMAIN Tree}
FileNames == {f[2] : f \in Files}

Content(f) == (CHOOSE e \in Entries(f[1]) : e.name = f[2]).data

\* strings.Contains
Contains(s, sub) ==
    \E k \in 0..(Len(s) - Len(sub)) : SubSeq(s, k + 1, k + Len(sub)) = sub

dotHl7 == << ".", "h", "l", "7" >>

\* "ZAC|" and time.Now().Format("20060102150405.9999999999") at tick t
ZAC == << 90, 65, 67, 124 >>
Stamp(t) == << 48 + (t % 10) >>

\* msg.Raw() of the parsed file: the message without its stray line feeds
Raw(data) == SelectSeq(data, LAMBDA b : b # 10)

\* what hl7.ParseMessage may make of acknowledgement bytes
ParseOutcomes ==
    {[err |-> "hl7: cannot parse message", type |-> ""]} \cup
    {[err |-> NoErr, type |-> t] : t \in {"ACK", "NACK", "ADT", ""}}
NotParsed == [err |-> NoErr, type |-> Unset]

\* checkAck without its NACK case
checkAckNackAsInvalid(parsed) ==
    IF parsed.err # NoErr THEN parsed.err
    ELSE IF parsed.type = "ACK" THEN NoErr
    ELSE "invalid ack response"

\* checkAck, given what hl7.ParseMessage(b, true) returned
checkAck(parsed) ==
    IF parsed.err # NoErr THEN parsed.err
    ELSE IF parsed.type = "ACK" THEN NoErr
    ELSE IF parsed.type = "NACK" THEN "receiving system returned nack"
    ELSE "invalid ack response"

----------------------------------------------------------------------------
(* hl7WebStoreInstance *)

NoDisp == [pc |-> "idle", path |-> << >>, file |-> << >>, hl7Data |-> << >>,
           hl7Data2 |-> << >>, data |-> NoOut, pth |-> "", parsed |-> NotParsed,
           err |-> NoErr, trace |-> << >>]

\* scanDirectory's hl7WebStoreInstance(path, file.Name())
EnterDispatch(path, file, v) ==
    [NoDisp EXCEPT !.pc = IF v = "main.go" THEN "read" ELSE "parse",
                   !.path = path, !.file = file]

NoTmp == [exists |-> FALSE, content |-> << >>]

DispRet(e, step) ==
    [disp EXCEPT !.pc = "ret", !.err = e, !.trace = Append(@, step)]

DispFile == <<disp.path, disp.file>>

\* main.go: hl7Data, err := ioutil.ReadFile(hl7Path + "/" + hl7File)
DispatchReadFile ==
    /\ disp.pc = "read"
    /\ \E ok \in BOOLEAN :
         disp' = IF ok
                 THEN [disp EXCEPT !.pc = "create", !.hl7Data = Content(DispFile),
                                   !.trace = Append(@, "ReadFile")]
                 ELSE DispRet("ReadFile: open", "ReadFile")
    /\ UNCHANGED <<ctor, cli, limLast, now, call, wire, ncalls>>
    /\ UNCHANGED <<variant, loop, stack, tmpfs, attempts, outcome, acks, panicked>>

\* part_001: hl7.ParseFile, hl7.GetMessageHeader, hl7Data := msg.Raw()
DispatchParseFile ==
    /\ disp.pc = "parse"
    /\ \E parseOk \in BOOLEAN, hdrOk \in BOOLEAN :
         disp' = IF ~parseOk THEN DispRet("hl7: cannot parse file", "ParseFile")
                 ELSE IF ~hdrOk
                     THEN DispRet("hl7: no message header", "GetMessageHeader")
                 ELSE [disp EXCEPT !.pc = "create",
                                   !.hl7Data = Raw(Content(DispFile)),
                                   !.trace = Append(@, "ParseFile")]
    /\ UNCHANGED <<ctor, cli, limLast, now, call, wire, ncalls>>
    /\ UNCHANGED <<variant, loop, stack, tmpfs, attempts, outcome, acks, panicked>>

\* the trailer is appended; f, err := os.Create("./tmp/" + hl7File)
DispatchCreate ==
    /\ disp.pc = "create"
    /\ \E ok \in BOOLEAN :
         /\ IF ok
            THEN /\ disp' = [disp EXCEPT !.pc = "write",
                                !.hl7Data = @ \o ZAC \o Stamp(now),
                                !.trace = Append(@, "Create")]
                 /\ tmpfs' = [tmpfs EXCEPT ![disp.file] =
                                 [exists |-> TRUE, content |-> << >>]]
            ELSE /\ disp' = DispRet("open ./tmp: no such file or directory",
                                    "Create")
                 /\ tmpfs' = tmpfs
    /\ UNCHANGED <<ctor, cli, limLast, now, call, wire, ncalls>>
    /\ UNCHANGED <<variant, loop, stack, attempts, outcome, acks, panicked>>

\* f.Write(hl7Data), its error dropped; if err := f.Close(); err != nil
DispatchWriteClose ==
    /\ disp.pc = "write"
    /\ \E wrote \in BOOLEAN, closed \in BOOLEAN :
         /\ tmpfs' = IF wrote
                     THEN [tmpfs EXCEPT ![disp.file].content = disp.hl7Data]
                     ELSE tmpfs
         /\ disp' = IF closed
                    THEN [disp EXCEPT !.pc = "readtmp",
                                      !.trace = Append(@, "Close")]
                    ELSE DispRet("close: input/output error", "Close")
    /\ UNCHANGED <<ctor, cli, limLast, now, call, wire, ncalls>>
    /\ UNCHANGED <<variant, loop, stack, attempts, outcome, acks, panicked>>

\* hl7Data2, err := ioutil.ReadFile(tmpfile)
DispatchReadTmp ==
    /\ disp.pc = "readtmp"
    /\ \E ok \in BOOLEAN :
         disp' = IF ok
                 THEN [disp EXCEPT !.pc = "remove",
                                   !.hl7Data2 = tmpfs[disp.file].content,
                                   !.trace = Append(@, "ReadTmp")]
                 ELSE DispRet("ReadFile: open", "ReadTmp")
    /\ UNCHANGED <<ctor, cli, limLast, now, call, wire, ncalls>>
    /\ UNCHANGED <<variant, loop, stack, tmpfs, attempts, outcome, acks, panicked>>

\* if !retainSent { err = os.Remove(...) }: a failure is only printed
DispatchRemove ==
    /\ disp.pc = "remove"
    /\ \E ok \in BOOLEAN :
         tmpfs' = IF ~retainSent(variant) /\ ok
                  THEN [tmpfs EXCEPT ![disp.file] = NoTmp]
                  ELSE tmpfs
    /\ disp' = [disp EXCEPT !.pc = "newclient"]
    /\ UNCHANGED <<ctor, cli, limLast, now, call, wire, ncalls>>
    /\ UNCHANGED <<variant, loop, stack, attempts, outcome, acks, panicked>>

\* cli, err := NewClient(ctx, cfg)
DispatchNewClient ==
    /\ disp.pc = "newclient"
    /\ ctor' = EnterNewClient(cfg(variant))
    /\ disp' = [disp EXCEPT !.pc = "newclient.wait"]
    /\ UNCHANGED <<cli, limLast, now, call, wire, ncalls>>
    /\ UNCHANGED <<variant, loop, stack, tmpfs, attempts, outcome, acks, panicked>>

DispatchNewClientRet ==
    /\ disp.pc = "newclient.wait"
    /\ ctor.pc = "ret"
    /\ disp' = IF ctor.err # NoErr
               THEN DispRet("unable to get new hcapi client", "NewClient")
               ELSE [disp EXCEPT !.pc = "send", !.trace = Append(@, "NewClient")]
    /\ UNCHANGED <<ctor, cli, limLast, now, call, wire, ncalls>>
    /\ UNCHANGED <<variant, loop, stack, tmpfs, attempts, outcome, acks, panicked>>

\* data, pth, err := cli.Send(hl7Data2)
DispatchSend ==
    /\ disp.pc = "send"
    /\ call' = EnterSend(disp.hl7Data2)
    /\ disp' = [disp EXCEPT !.pc = "send.wait"]
    /\ UNCHANGED <<ctor, cli, limLast, now, wire, ncalls>>
    /\ UNCHANGED <<variant, loop, stack, tmpfs, attempts, outcome, acks, panicked>>

\* the dispatch going on to checkAck whatever Send returned
DispatchSendRetIgnoresErr ==
    /\ disp.pc = "send.wait"
    /\ call.pc = "ret"
    /\ disp' = [disp EXCEPT !.pc = "checkack", !.data = call.out,
                            !.pth = call.out.name, !.trace = Append(@, "Send")]
    /\ UNCHANGED <<ctor, cli, limLast, now, call, wire, ncalls>>
    /\ UNCHANGED <<variant, loop, stack, tmpfs, attempts, outcome, acks, panicked>>

DispatchSendRet ==
    /\ disp.pc = "send.wait"
    /\ call.pc = "ret"
    /\ disp' = IF call.out.err # NoErr
               THEN DispRet("unable to send msg to hcapi", "Send")
               ELSE [disp EXCEPT !.pc = "checkack", !.data = call.out,
                                 !.pth = call.out.name,
                                 !.trace = Append(@, "Send")]
    /\ UNCHANGED <<ctor, cli, limLast, now, call, wire, ncalls>>
    /\ UNCHANGED <<variant, loop, stack, tmpfs, attempts, outcome, acks, panicked>>

\* err = checkAck(data); the dispatch returns what checkAck returned
DispatchCheckAck ==
    /\ disp.pc = "checkack"
    /\ \E parsed \in ParseOutcomes :
         disp' = [DispRet(checkAck(parsed), "checkAck") EXCEPT !.parsed = parsed]
    /\ acks' = [acks EXCEPT ![DispFile] = @ + 1]
    /\ UNCHANGED <<ctor, cli, limLast, now, call, wire, ncalls>>
    /\ UNCHANGED <<variant, loop, stack, tmpfs, attempts, outcome, panicked>>

----------------------------------------------------------------------------
(* main and scanDirectory *)

Frame(path) == [path |-> path, pc |-> "readdir", files |-> << >>, i |-> 1]
Top == stack[Len(stack)]
SetTop(f) == [stack EXCEPT ![Len(stack)] = f]
Pop == SubSeq(stack, 1, Len(stack) - 1)

\* for i := 0; i < loopit; i++ { scanDirectory(hl7Dir) }
MainLoop ==
    /\ stack = << >> /\ ~panicked
    /\ loop < loopit
    /\ loop' = loop + 1
    /\ stack' = << Frame(<< >>) >>
    /\ attempts' = [f \in Files |-> 0]
    /\ acks' = [f \in Files |-> 0]
    /\ UNCHANGED <<ctor, cli, limLast, now, call, wire, ncalls>>
    /\ UNCHANGED <<variant, disp, tmpfs, outcome, panicked>>

\* files, err := ioutil.ReadDir(path); if err != nil { panic(err) }
ScanReadDir ==
    /\ stack # << >> /\ Top.pc = "readdir"
    /\ \E ok \in BOOLEAN :
         IF ok
         THEN /\ stack' = SetTop([Top EXCEPT !.pc = "loop", !.files = Tree[Top.path]])
              /\ panicked' = panicked
         ELSE /\ stack' = << >>
              /\ panicked' = TRUE
    /\ UNCHANGED <<ctor, cli, limLast, now, call, wire, ncalls>>
    /\ UNCHANGED <<variant, loop, disp, tmpfs, attempts, outcome, acks>>

AtEntry == stack # << >> /\ Top.pc = "loop" /\ Top.i <= Len(Top.files)
Entry == Top.files[Top.i]

\* if file.IsDir() { scanDirectory(filepath) }
ScanSubdir ==
    /\ AtEntry /\ Entry.isDir
    /\ stack' = Append(SetTop([Top EXCEPT !.i = @ + 1]),
                       Frame(Append(Top.path, Entry.name)))
    /\ UNCHANGED <<ctor, cli, limLast, now, call, wire, ncalls>>
    /\ UNCHANGED <<variant, loop, disp, tmpfs, attempts, outcome, acks, panicked>>

\* a regular file whose name does not contain ".hl7" is passed over
ScanSkip ==
    /\ AtEntry /\ ~Entry.isDir /\ ~Contains(Entry.name, dotHl7)
    /\ stack' = SetTop([Top EXCEPT !.i = @ + 1])
    /\ UNCHANGED <<ctor, cli, limLast, now, call, wire, ncalls>>
    /\ UNCHANGED <<variant, loop, disp, tmpfs, attempts, outcome, acks, panicked>>

\* if strings.Contains(file.Name(), ".hl7") { hl7WebStoreInstance(path, file.Name()) }
\* (the clock has moved on by the time the next file is dispatched)
ScanDispatch ==
    /\ AtEntry /\ ~Entry.isDir /\ Contains(Entry.name, dotHl7)
    /\ stack' = SetTop([Top EXCEPT !.pc = "dispatch"])
    /\ disp' = EnterDispatch(Top.path, Entry.name, variant)
    /\ attempts' = [attempts EXCEPT ![<<Top.path, Entry.name>>] = @ + 1]
    /\ now' = now + 1
    /\ UNCHANGED <<ctor, cli, limLast, call, wire, ncalls>>
    /\ UNCHANGED <<variant, loop, tmpfs, outcome, acks, panicked>>

\* scanDirectory returning at the first file whose dispatch failed
ScanDispatchReturnAborts ==
    /\ stack # << >> /\ Top.pc = "dispatch"
    /\ disp.pc = "ret"
    /\ outcome' = [outcome EXCEPT ![DispFile] =
                      IF disp.err = NoErr THEN "ok" ELSE "error"]
    /\ stack' = IF disp.err = NoErr
                THEN SetTop([Top EXCEPT !.pc = "loop", !.i = @ + 1])
                ELSE Pop
    /\ disp' = NoDisp
    /\ ctor' = NoCtor
    /\ cli' = NoClient
    /\ call' = NoCall
    /\ UNCHANGED <<limLast, now, wire, ncalls>>
    /\ UNCHANGED <<variant, loop, tmpfs, attempts, acks, panicked>>

\* ... err != nil { fmt.Printf("error: %s\n", err) }; the loop goes on
ScanDispatchReturn ==
    /\ stack # << >> /\ Top.pc = "dispatch"
    /\ disp.pc = "ret"
    /\ outcome' = [outcome EXCEPT ![DispFile] =
                      IF disp.err = NoErr THEN "ok" ELSE "error"]
    /\ stack' = SetTop([Top EXCEPT !.pc = "loop", !.i = @ + 1])
    /\ disp' = NoDisp
    /\ ctor' = NoCtor
    /\ cli' = NoClient
    /\ call' = NoCall
    /\ UNCHANGED <<limLast, now, wire, ncalls>>
    /\ UNCHANGED <<variant, loop, tmpfs, attempts, acks, panicked>>

\* the end of the listing: scanDirectory returns
ScanReturn ==
    /\ stack # << >> /\ Top.pc = "loop" /\ Top.i > Len(Top.files)
    /\ stack' = Pop
    /\ UNCHANGED <<ctor, cli, limLast, now, call, wire, ncalls>>
    /\ UNCHANGED <<variant, loop, disp, tmpfs, attempts, outcome, acks, panicked>>

----------------------------------------------------------------------------
(* Initial states and the two specifications *)

NotRun == "not run"

ClientInit ==
    /\ ctor = NoCtor
    /\ cli = NoClient
    /\ limLast = -1
    /\ now = 0
    /\ call = NoCall
    /\ wire = {}
    /\ ncalls = 0

ScanIdle ==
    /\ loop = 0
    /\ stack = << >>
    /\ disp = NoDisp
    /\ tmpfs = [n \in FileNames |-> NoTmp]
    /\ attempts = [f \in Files |-> 0]
    /\ outcome = [f \in Files |-> NotRun]
    /\ acks = [f \in Files |-> 0]
    /\ panicked = FALSE

Init == ClientInit /\ ScanIdle /\ variant = "main.go"

InitScan == ClientInit /\ ScanIdle /\ variant \in Variants

ClientStep ==
    \/ NewClientValidate
    \/ NewClientTokenSource
    \/ NewClientService
    \/ NewClientLimiter
    \/ SendTake
    \/ SendBuild
    \/ SendHeader
    \/ SendDo
    \/ SendDecode
    \/ ListTake
    \/ ListBuild
    \/ ListHeader
    \/ ListDo
    \/ GetByID
    \/ GetTake
    \/ GetBuild
    \/ GetHeader
    \/ GetDo

Next ==
    \/ CallNewClient
    \/ CallSend
    \/ CallList
    \/ CallGetByID
    \/ CallGet
    \/ Tick
    \/ ClientStep

Spec == Init /\ [][Next]_vars

DispatchStep ==
    \/ DispatchReadFile
    \/ DispatchParseFile
    \/ DispatchCreate
    \/ DispatchWriteClose
    \/ DispatchReadTmp
    \/ DispatchRemove
    \/ DispatchNewClient
    \/ DispatchNewClientRet
    \/ DispatchSend
    \/ DispatchSendRet
    \/ DispatchCheckAck

NextScan ==
    \/ MainLoop
    \/ ScanReadDir
    \/ ScanSubdir
    \/ ScanSkip
    \/ ScanDispatch
    \/ ScanDispatchReturn
    \/ ScanReturn
    \/ DispatchStep
    \/ NewClientValidate
    \/ NewClientTokenSource
    \/ NewClientService
    \/ NewClientLimiter
    \/ SendTake
    \/ SendBuild
    \/ SendHeader
    \/ SendDo
    \/ SendDecode

SpecScan == InitScan /\ [][NextScan]_vars

----------------------------------------------------------------------------
(* The claims *)

FourPresent(c) ==
    c.ProjectID # "" /\ c.LocationID # "" /\ c.DatasetID # "" /\ c.HL7StoreID # ""

Candidate(f) == Contains(f[2], dotHl7)
Done == stack = << >> /\ loop = loopit
Pos(seq, x) ==
    IF \E k \in 1..Len(seq) : seq[k] = x
    THEN CHOOSE k \in 1..Len(seq) : seq[k] = x
    ELSE 0

\* the acknowledgement texts of the model, decoded by hand
AckVectors ==
    (<< >> :> [valid |-> TRUE, bytes |-> << >>])
    @@ (<< "Q", "U", "N", "L" >> :> [valid |-> TRUE, bytes |-> << 65, 67, 75 >>])
    @@ (<< "T", "k", "F", "D", "S", "w", "=", "=" >> :>
            [valid |-> TRUE, bytes |-> << 78, 65, 67, 75 >>])
    @@ (<< "Q", "U", "\n", "N", "L" >> :>
            [valid |-> TRUE, bytes |-> << 65, 67, 75 >>])
    @@ (<< "Q", "U", "N" >> :> [valid |-> FALSE, bytes |-> << >>])
    @@ (<< "Q", "U", "*", "L" >> :> [valid |-> FALSE, bytes |-> << >>])

\* C1: hl7WebStoreInstance returns nil only after, in this order, NewClient
\* succeeded, Send returned without error and checkAck classified the
\* acknowledgement of that same Send as ACK; checkAck runs at most once per
\* dispatched file and never after a Send that failed.
C1_SuccessOnlyAfterAck ==
    /\ (disp.pc = "ret" /\ disp.err = NoErr) =>
          /\ ctor.pc = "ret" /\ ctor.err = NoErr /\ cli.made
          /\ call.op = "Send" /\ call.pc = "ret" /\ call.out.err = NoErr
          /\ disp.data = call.out
          /\ disp.parsed.err = NoErr /\ disp.parsed.type = "ACK"
          /\ 0 < Pos(disp.trace, "NewClient")
          /\ Pos(disp.trace, "NewClient") < Pos(disp.trace, "Send")
          /\ Pos(disp.trace, "Send") < Pos(disp.trace, "checkAck")
          /\ Pos(disp.trace, "checkAck") = Len(disp.trace)
    /\ \A f \in Files : acks[f] <= attempts[f] /\ acks[f] <= 1
    /\ (disp.pc # "idle" /\ acks[DispFile] > 0) =>
          /\ call.op = "Send" /\ call.pc = "ret" /\ call.out.err = NoErr
          /\ disp.data = call.out

C1_Witness ==
    /\ disp.pc = "ret" /\ disp.err = NoErr
    /\ DispFile = << << NameD >>, NameC >>
    /\ outcome[<< << >>, NameA >>] = "error"
    /\ acks[<< << >>, NameA >>] = 0

\* C2: Validate returns nil iff the four identifiers are all non-empty, whatever
\* RateLimit and Credential are.
C2_ValidateIff ==
    ctor.verr # Unset => (ctor.verr = NoErr <=> FourPresent(ctor.config))

C2_Witness ==
    /\ ctor.verr = NoErr
    /\ ctor.config.RateLimit < 0
    /\ ctor.config.Credential = ""

\* C3: with an empty identifier NewClient returns no client and the error of the
\* first empty identifier in the order project, location, dataset, store, before
\* any credential is resolved and before a service or a limiter is created.
C3_FailFast ==
    (ctor.verr # Unset /\ ~FourPresent(ctor.config)) =>
        /\ ctor.pc = "ret"
        /\ ~cli.made
        /\ ctor.log = << "Validate" >>
        /\ ctor.err =
             IF ctor.config.ProjectID = "" THEN "missing project id"
             ELSE IF ctor.config.LocationID = "" THEN "missing location id"
             ELSE IF ctor.config.DatasetID = "" THEN "missing dataset id"
             ELSE "missing hl7 store id"

C3_Witness ==
    /\ ctor.pc = "ret"
    /\ ctor.config.ProjectID # "" /\ ctor.config.LocationID = ""
    /\ ctor.config.HL7StoreID = ""
    /\ ctor.err = "missing location id"

\* C4: every call of Send, Get, List and GetByID takes exactly one permit, and
\* takes it before its request is executed.
C4_OnePermitPerCall ==
    /\ call.takes <= 1
    /\ call.pc \in {"GetByID", "Send.take", "List.take", "Get.take"} =>
          call.takes = 0 /\ call.reqs = 0
    /\ call.pc \in {"Send.build", "Send.header", "Send.do", "Send.decode",
                    "List.build", "List.header", "List.do",
                    "Get.build", "Get.header", "Get.do", "ret"} =>
          call.takes = 1
    /\ call.reqs > 0 => call.takes = 1

C4_Witness ==
    /\ call.op = "GetByID" /\ call.pc = "ret"
    /\ call.takes = 1 /\ call.reqs = 1
    /\ ncalls = MaxCalls

\* C5: the limiter is chosen at construction from the configured rate and never
\* changes: RateLimit <= 0 gives the unlimited limiter, under which no call
\* ever waits for its permit; RateLimit > 0 gives the pacer of that rate.
C5_Selected ==
    cli.made =>
        /\ cli.config.RateLimit <= 0 =>
              /\ cli.limiter = [kind |-> "unlimited", rate |-> 0]
              /\ call.waited = 0
        /\ cli.config.RateLimit > 0 =>
              cli.limiter = [kind |-> "limited", rate |-> cli.config.RateLimit]

C5_LimiterSelectedOnce ==
    /\ []C5_Selected
    /\ [][cli.made => cli' = cli]_vars

C5_Witness ==
    /\ cli.made /\ cli.config.RateLimit < 0
    /\ ncalls = MaxCalls /\ call.pc = "ret" /\ call.takes = 1
    /\ call.waited = 0

\* C6: no call executes more than one request; a failed request, or for Send a
\* failed decoding of the answer, is returned as the error of that same call.
C6_NoRetry ==
    /\ call.reqs <= 1
    /\ call.pc = "ret" => call.reqs = 1
    /\ call.doErr \notin {Unset, NoErr} =>
          call.pc = "ret" /\ call.out.err = call.doErr /\ call.out.nil
    /\ (call.op = "Send" /\ call.pc = "ret" /\ call.doErr = NoErr
          /\ ~AckVectors[call.resp.Hl7Ack].valid) =>
          call.out.err \notin {Unset, NoErr}

C6_Witness ==
    /\ call.op = "Get" /\ call.pc = "ret"
    /\ call.doErr = "transport error" /\ call.out.err = "transport error"
    /\ call.reqs = 1

\* C7: Send returns the decoded acknowledgement, the resource name of the answer
\* and nil when the transport answers with valid base64; an error, a nil
\* acknowledgement and an empty name when the transport fails or the
\* acknowledgement is not valid base64.
C7_SendRoundTrip ==
    (call.op = "Send" /\ call.pc = "ret") =>
        IF call.doErr = NoErr /\ AckVectors[call.resp.Hl7Ack].valid
        THEN call.out = [nil |-> FALSE,
                         bytes |-> AckVectors[call.resp.Hl7Ack].bytes,
                         name |-> call.resp.Name, err |-> NoErr]
        ELSE /\ call.out.err \notin {Unset, NoErr}
             /\ call.out.nil /\ call.out.bytes = << >>
             /\ call.out.name = ""

C7_Witness ==
    /\ call.op = "Send" /\ call.pc = "ret"
    /\ call.out.err = NoErr
    /\ call.out.bytes = << 78, 65, 67, 75 >>
    /\ call.out.name = genStoreName(cli.config) \o "/messages/m2"

\* C8: for bytes that parse, checkAck returns nil iff the type is ACK, the
\* negative-acknowledgement error iff it is NACK and the unrecognized-
\* acknowledgement error for any other type; bytes that do not parse give the
\* parser's error, which is none of these.
C8_AckClassification ==
    (disp.pc = "ret" /\ disp.parsed # NotParsed) =>
        /\ disp.parsed.err = NoErr =>
              /\ disp.err = NoErr <=> disp.parsed.type = "ACK"
              /\ disp.err = "receiving system returned nack"
                    <=> disp.parsed.type = "NACK"
              /\ disp.err = "invalid ack response"
                    <=> disp.parsed.type \notin {"ACK", "NACK"}
        /\ disp.parsed.err # NoErr =>
              /\ disp.err = disp.parsed.err
              /\ disp.err \notin {NoErr, "receiving system returned nack",
                                  "invalid ack response"}

C8_Witness ==
    /\ disp.pc = "ret"
    /\ disp.parsed = [err |-> NoErr, type |-> "NACK"]
    /\ disp.err = "receiving system returned nack"

C9_Continues ==
    /\ \A f \in Files : attempts[f] <= 1
    /\ disp.pc # "idle" => stack # << >> /\ ~panicked
    /\ (Done /\ ~panicked) =>
          \A f \in Files : attempts[f] = IF Candidate(f) THEN 1 ELSE 0

C10_FormatHeader ==
    /\ \A r \in wire : r.headers = {<< "X-GOOG-API-FORMAT-VERSION", "2" >>}
    /\ call.pc \in {"Send.do", "List.do", "Get.do"} =>
          call.req.headers = {<< "X-GOOG-API-FORMAT-VERSION", "2" >>}

C10_Witness ==
    /\ {r.method : r \in wire} = {"ingest", "list", "get"}
    /\ call.pc = "ret"

====
